---- MODULE Spec2Model ----
(***************************************************************************)
(* Usage aggregation and cost analysis of claude_monitor.                  *)
(*                                                                         *)
(* TokenAnalyzer (src/src/claude_monitor/analyzers/tokens.py) prices the   *)
(* aggregates that SessionParser derives from the log store.  Money is     *)
(* modelled by exact rationals (normalised fractions), token counts by     *)
(* integers, Python dicts by sequences of key/value entries in insertion   *)
(* order.                                                                  *)
(***************************************************************************)
EXTENDS Integers, Sequences, FiniteSets, TLC

VARIABLES log,          \* the log store: the raw records, in file order
          time_filter,  \* TokenAnalyzer.time_filter
          args,         \* the arguments of a direct call of calculate_cost
          last,         \* the operation that ran last
          result,       \* what that operation returned
          calls,        \* the queries made on this snapshot, with what they returned
          callers,      \* the local state of each concurrent caller of a query
          readable,     \* whether the log store can be read
          menu          \* InteractiveMenu.get_user_choice: where the call is, the
                        \* console and prompt calls it made, the answers it got

vars == <<log, time_filter, args, last, result, calls, callers, readable, menu>>

(***************************************************************************)
(* Bounds                                                                  *)
(***************************************************************************)
MaxLog == 3
MaxTimedLog == 2
MaxTime == 2

(***************************************************************************)
(* Exact rational arithmetic for the float fields.                         *)
(***************************************************************************)
Abs(x) == IF x < 0 THEN -x ELSE x

RECURSIVE GCD(_, _)
GCD(a, b) == IF b = 0 THEN a ELSE GCD(b, a % b)

Rat(n, d) ==
    LET g == GCD(Abs(n), Abs(d))
        s == IF d < 0 THEN -1 ELSE 1
    IN  [num |-> s * (n \div g), den |-> s * (d \div g)]

RatInt(n) == [num |-> n, den |-> 1]

RatZero == RatInt(0)

RatAdd(a, b) ==
    LET g == GCD(a.den, b.den)
    IN  Rat(a.num * (b.den \div g) + b.num * (a.den \div g), a.den * (b.den \div g))

RatNeg(a) == [num |-> -a.num, den |-> a.den]

RatSub(a, b) == RatAdd(a, RatNeg(b))

RatMul(a, b) ==
    LET g1 == GCD(Abs(a.num), b.den)
        g2 == GCD(Abs(b.num), a.den)
    IN  Rat((a.num \div g1) * (b.num \div g2), (a.den \div g2) * (b.den \div g1))

RatDiv(a, b) == RatMul(a, Rat(b.den, b.num))

RatLeq(a, b) ==
    LET g == GCD(a.den, b.den)
    IN  a.num * (b.den \div g) <= b.num * (a.den \div g)

RatLess(a, b) == RatLeq(a, b) /\ a # b

(***************************************************************************)
(* Pricing table                                                           *)
(***************************************************************************)
Sonnet == "claude-sonnet-4-5-20250929"
Haiku == "claude-haiku-4-5-20251001"
Opus == "claude-opus-4-20250514"

MODEL_PRICING ==
    (Sonnet :> [input_per_mtok |-> Rat(300, 100),
                output_per_mtok |-> Rat(1500, 100),
                cache_write_per_mtok |-> Rat(375, 100),
                cache_read_per_mtok |-> Rat(30, 100)])
    @@
    (Haiku :> [input_per_mtok |-> Rat(100, 100),
               output_per_mtok |-> Rat(500, 100),
               cache_write_per_mtok |-> Rat(125, 100),
               cache_read_per_mtok |-> Rat(10, 100)])
    @@
    (Opus :> [input_per_mtok |-> Rat(1500, 100),
              output_per_mtok |-> Rat(7500, 100),
              cache_write_per_mtok |-> Rat(1875, 100),
              cache_read_per_mtok |-> Rat(150, 100)])

DEFAULT_PRICING == MODEL_PRICING[Sonnet]

\* the model argument of calculate_cost when the caller passes none
None == "None"

Million == 1000000

(***************************************************************************)
(* TokenUsage (parsers.sessions)                                           *)
(***************************************************************************)
TokenUsage(i, o, cw, cr) ==
    [input_tokens |-> i, output_tokens |-> o,
     cache_creation_input_tokens |-> cw, cache_read_input_tokens |-> cr]

ZeroUsage == TokenUsage(0, 0, 0, 0)

AddUsage(a, b) ==
    TokenUsage(a.input_tokens + b.input_tokens,
               a.output_tokens + b.output_tokens,
               a.cache_creation_input_tokens + b.cache_creation_input_tokens,
               a.cache_read_input_tokens + b.cache_read_input_tokens)

total_input_tokens(u) ==
    u.input_tokens + u.cache_creation_input_tokens + u.cache_read_input_tokens

cache_efficiency_percentage(u) ==
    IF total_input_tokens(u) = 0
    THEN RatZero
    ELSE RatMul(RatInt(100), Rat(u.cache_read_input_tokens, total_input_tokens(u)))

(***************************************************************************)
(* The log store and SessionParser (parsers.sessions).  A record carries   *)
(* its identity (session id and message id), its project, its timestamp,   *)
(* the model that produced it (NoModel for an event that no model          *)
(* produced) and its four token counters.                                  *)
(***************************************************************************)
NoModel == "<no model>"
\* time_filter: none given, TimeFilter of the preset all, TimeFilter of a window
NoFilter == [kind |-> "none"]
AllFilter == [kind |-> "all"]
Window(start, end) == [kind |-> "window", start |-> start, end |-> end]
NoResult == "<no result>"
NoArgs == "<no args>"

\* the callers of the concurrent queries, and a caller outside any call
Callers == {"c1", "c2"}
Idle == [pc |-> "idle"]
NoCallers == [c \in Callers |-> Idle]

\* get_user_choice before it does anything
NoMenu == [pc |-> "start", console |-> <<>>]

Custom == "custom-model"

Sessions == {"s1", "s2"}

ProjectOf(session) ==
    IF session = "s1" THEN "/home/user/alpha" ELSE "/home/user/beta"

SmallUsage == TokenUsage(Million, 0, 0, 0)
LargeUsage == TokenUsage(2 * Million, Million, Million, 2 * Million)

\* what one interaction event contributes, the model and its counters, for
\* the events that may happen in a session
EventsOf(session) ==
    IF session = "s1"
    THEN {<<Sonnet, SmallUsage>>, <<Custom, SmallUsage>>, <<NoModel, ZeroUsage>>}
    ELSE {<<Sonnet, SmallUsage>>, <<Opus, SmallUsage>>, <<Haiku, LargeUsage>>,
          <<NoModel, ZeroUsage>>}

RecordId(r) == <<r.session_id, r.message_id>>

DistinctIds(records, session) ==
    {RecordId(records[i]) : i \in {j \in DOMAIN records : records[j].session_id = session}}

NewRecord(records, session, event, timestamp) ==
    [session_id |-> session,
     message_id |-> Cardinality(DistinctIds(records, session)) + 1,
     project_path |-> ProjectOf(session),
     timestamp |-> timestamp,
     model_id |-> event[1],
     usage |-> event[2]]

\* the timestamp field of a record whose timestamp is missing or unparsable
NoTimestamp == -1

\* variant: a negative counter goes unnoticed
MalformedLenient(r) ==
    \/ r.session_id = ""
    \/ r.timestamp = NoTimestamp

\* the records the parser skips for their data
Malformed(r) ==
    \/ r.session_id = ""
    \/ r.timestamp = NoTimestamp
    \/ r.usage.input_tokens < 0
    \/ r.usage.output_tokens < 0
    \/ r.usage.cache_creation_input_tokens < 0
    \/ r.usage.cache_read_input_tokens < 0

\* variant: the end of the window belongs to the window
IncludesClosed(tf, timestamp) ==
    \/ tf.kind \in {"none", "all"}
    \/ (timestamp # NoTimestamp /\ tf.start <= timestamp /\ timestamp <= tf.end)

Includes(tf, timestamp) ==
    \/ tf.kind \in {"none", "all"}
    \/ (timestamp # NoTimestamp /\ tf.start <= timestamp /\ timestamp < tf.end)

\* variant: every record counts, a repeated identity too
RECURSIVE ParseRecordsAll(_, _, _, _)
ParseRecordsAll(records, tf, i, seen) ==
    IF i > Len(records)
    THEN <<>>
    ELSE IF Malformed(records[i]) \/ ~Includes(tf, records[i].timestamp)
         THEN ParseRecordsAll(records, tf, i + 1, seen)
         ELSE <<records[i]>> \o ParseRecordsAll(records, tf, i + 1, seen)

\* the records that count: each identity once, inside the time filter
RECURSIVE ParseRecords(_, _, _, _)
ParseRecords(records, tf, i, seen) ==
    IF i > Len(records)
    THEN <<>>
    ELSE LET r == records[i]
         IN  IF Malformed(r) \/ RecordId(r) \in seen \/ ~Includes(tf, r.timestamp)
             THEN ParseRecords(records, tf, i + 1, seen)
             ELSE <<r>> \o ParseRecords(records, tf, i + 1, seen \cup {RecordId(r)})

HasKey(map, key) == \E i \in DOMAIN map : map[i].key = key

Lookup(map, key) == map[CHOOSE i \in DOMAIN map : map[i].key = key].value

Keys(map) == {map[i].key : i \in DOMAIN map}

\* model_usage[model] += usage, a new key going to the end
AddToUsageMap(map, key, usage) ==
    IF HasKey(map, key)
    THEN [i \in DOMAIN map |->
             IF map[i].key = key
             THEN [key |-> key, value |-> AddUsage(map[i].value, usage)]
             ELSE map[i]]
    ELSE Append(map, [key |-> key, value |-> usage])

EmptyStats == [total_tokens |-> ZeroUsage, model_usage |-> <<>>]

\* variant: model_usage[model] = usage, the earlier count of the model lost
AddRecordOverwrite(stats, r) ==
    [total_tokens |-> AddUsage(stats.total_tokens, r.usage),
     model_usage |-> IF r.model_id = NoModel
                     THEN stats.model_usage
                     ELSE IF HasKey(stats.model_usage, r.model_id)
                          THEN [i \in DOMAIN stats.model_usage |->
                                   IF stats.model_usage[i].key = r.model_id
                                   THEN [key |-> r.model_id, value |-> r.usage]
                                   ELSE stats.model_usage[i]]
                          ELSE Append(stats.model_usage, [key |-> r.model_id, value |-> r.usage])]

AddRecord(stats, r) ==
    [total_tokens |-> AddUsage(stats.total_tokens, r.usage),
     model_usage |-> IF r.model_id = NoModel
                     THEN stats.model_usage
                     ELSE AddToUsageMap(stats.model_usage, r.model_id, r.usage)]

RECURSIVE Aggregate(_, _)
Aggregate(accepted, n) ==
    IF n = 0 THEN EmptyStats ELSE AddRecord(Aggregate(accepted, n - 1), accepted[n])

get_stats(records, tf) ==
    LET accepted == ParseRecords(records, tf, 1, {})
    IN  Aggregate(accepted, Len(accepted))

AddToProjectMap(map, r) ==
    IF HasKey(map, r.project_path)
    THEN [i \in DOMAIN map |->
             IF map[i].key = r.project_path
             THEN [key |-> map[i].key, value |-> AddRecord(map[i].value, r)]
             ELSE map[i]]
    ELSE Append(map, [key |-> r.project_path, value |-> AddRecord(EmptyStats, r)])

RECURSIVE AggregateProjects(_, _)
AggregateProjects(accepted, n) ==
    IF n = 0 THEN <<>> ELSE AddToProjectMap(AggregateProjects(accepted, n - 1), accepted[n])

get_project_stats(records, tf) ==
    LET accepted == ParseRecords(records, tf, 1, {})
    IN  AggregateProjects(accepted, Len(accepted))

(***************************************************************************)
(* CostBreakdown and TokenSummary                                          *)
(***************************************************************************)
CostBreakdown(i, o, cw, cr) ==
    [input_cost |-> i, output_cost |-> o, cache_write_cost |-> cw, cache_read_cost |-> cr]

total_cost(cb) ==
    RatAdd(RatAdd(RatAdd(cb.input_cost, cb.output_cost), cb.cache_write_cost),
           cb.cache_read_cost)

\* variant: the savings are taken on everything that went through the cache
cache_savings_all_cache(cb) ==
    LET cached == RatAdd(cb.cache_read_cost, cb.cache_write_cost)
        regular_cost == RatMul(RatDiv(cached, DEFAULT_PRICING.cache_read_per_mtok),
                               DEFAULT_PRICING.input_per_mtok)
    IN  RatSub(regular_cost, cached)

\* variant: the difference is taken the other way round
cache_savings_reversed(cb) ==
    LET regular_cost == RatMul(RatDiv(cb.cache_read_cost, DEFAULT_PRICING.cache_read_per_mtok),
                               DEFAULT_PRICING.input_per_mtok)
    IN  RatSub(cb.cache_read_cost, regular_cost)

cache_savings(cb) ==
    LET regular_cost == RatMul(RatDiv(cb.cache_read_cost, DEFAULT_PRICING.cache_read_per_mtok),
                               DEFAULT_PRICING.input_per_mtok)
    IN  RatSub(regular_cost, cb.cache_read_cost)

TokenSummary(tokens, cost, pct) ==
    [total_tokens |-> tokens, cost_breakdown |-> cost, cache_efficiency_pct |-> pct]

\* the properties of a TokenSummary
summary_total_cost(summary) == total_cost(summary.cost_breakdown)

summary_cache_savings(summary) == cache_savings(summary.cost_breakdown)

\* variant: the cache savings are taken off the total
net_cost_less_savings(summary) ==
    RatSub(total_cost(summary.cost_breakdown), cache_savings(summary.cost_breakdown))

net_cost(summary) == total_cost(summary.cost_breakdown)

(***************************************************************************)
(* TokenAnalyzer                                                           *)
(***************************************************************************)
\* variant: an unknown model falls back to the cheapest entry
PricingForCheapest(model) ==
    IF model \in DOMAIN MODEL_PRICING THEN MODEL_PRICING[model] ELSE MODEL_PRICING[Haiku]

\* MODEL_PRICING.get(model, DEFAULT_PRICING)
PricingFor(model) ==
    IF model \in DOMAIN MODEL_PRICING THEN MODEL_PRICING[model] ELSE DEFAULT_PRICING

\* round(x, 2) on a non-negative amount: the nearest cent
RoundCents(x) == Rat((2 * 100 * x.num + x.den) \div (2 * x.den), 100)

\* variant: every category is rounded to cents
calculate_cost_rounded(tokens, model) ==
    LET pricing == PricingFor(model)
    IN  CostBreakdown(
            RoundCents(RatMul(Rat(tokens.input_tokens, Million), pricing.input_per_mtok)),
            RoundCents(RatMul(Rat(tokens.output_tokens, Million), pricing.output_per_mtok)),
            RoundCents(RatMul(Rat(tokens.cache_creation_input_tokens, Million),
                              pricing.cache_write_per_mtok)),
            RoundCents(RatMul(Rat(tokens.cache_read_input_tokens, Million),
                              pricing.cache_read_per_mtok)))

calculate_cost(tokens, model) ==
    LET pricing == PricingFor(model)
    IN  CostBreakdown(
            RatMul(Rat(tokens.input_tokens, Million), pricing.input_per_mtok),
            RatMul(Rat(tokens.output_tokens, Million), pricing.output_per_mtok),
            RatMul(Rat(tokens.cache_creation_input_tokens, Million), pricing.cache_write_per_mtok),
            RatMul(Rat(tokens.cache_read_input_tokens, Million), pricing.cache_read_per_mtok))

\* the loop of get_summary over model_usage.items(), after n entries
RECURSIVE AccumulateCost(_, _)
AccumulateCost(model_usage, n) ==
    IF n = 0
    THEN CostBreakdown(RatZero, RatZero, RatZero, RatZero)
    ELSE LET acc == AccumulateCost(model_usage, n - 1)
             model_cost == calculate_cost(model_usage[n].value, model_usage[n].key)
         IN  CostBreakdown(RatAdd(acc.input_cost, model_cost.input_cost),
                           RatAdd(acc.output_cost, model_cost.output_cost),
                           RatAdd(acc.cache_write_cost, model_cost.cache_write_cost),
                           RatAdd(acc.cache_read_cost, model_cost.cache_read_cost))

\* variant: total_cost is a field of the analyzer that get_summary() does not
\* reset: a call goes on from where the previous get_summary() stopped
get_summary_carried(records, tf) ==
    LET stats == get_stats(records, tf)
        fresh == AccumulateCost(stats.model_usage, Len(stats.model_usage))
        carried == IF last = "get_summary"
                   THEN result.cost_breakdown
                   ELSE CostBreakdown(RatZero, RatZero, RatZero, RatZero)
    IN  TokenSummary(stats.total_tokens,
                     CostBreakdown(RatAdd(carried.input_cost, fresh.input_cost),
                                   RatAdd(carried.output_cost, fresh.output_cost),
                                   RatAdd(carried.cache_write_cost, fresh.cache_write_cost),
                                   RatAdd(carried.cache_read_cost, fresh.cache_read_cost)),
                     cache_efficiency_percentage(stats.total_tokens))

\* variant: get_stats() is called without the analyzer's time filter
get_summary_unfiltered(records, tf) ==
    LET stats == get_stats(records, NoFilter)
    IN  TokenSummary(stats.total_tokens,
                     AccumulateCost(stats.model_usage, Len(stats.model_usage)),
                     cache_efficiency_percentage(stats.total_tokens))

\* variant: the grand total is priced at one rate
get_summary_blended(records, tf) ==
    LET stats == get_stats(records, tf)
    IN  TokenSummary(stats.total_tokens,
                     calculate_cost(stats.total_tokens, None),
                     cache_efficiency_percentage(stats.total_tokens))

get_summary(records, tf) ==
    LET stats == get_stats(records, tf)
    IN  TokenSummary(stats.total_tokens,
                     AccumulateCost(stats.model_usage, Len(stats.model_usage)),
                     cache_efficiency_percentage(stats.total_tokens))

\* variant: an ascending sort reversed, equal keys end up in reverse order
InsertDescendingUnstable(sorted, x) ==
    LET k == Cardinality({i \in DOMAIN sorted : RatLess(x.sort_key, sorted[i].sort_key)})
    IN  SubSeq(sorted, 1, k) \o <<x>> \o SubSeq(sorted, k + 1, Len(sorted))

\* sorted(items, key=..., reverse=True): descending, equal keys keep their order
InsertDescending(sorted, x) ==
    LET k == Cardinality({i \in DOMAIN sorted : RatLeq(x.sort_key, sorted[i].sort_key)})
    IN  SubSeq(sorted, 1, k) \o <<x>> \o SubSeq(sorted, k + 1, Len(sorted))

RECURSIVE SortDescending(_, _)
SortDescending(items, n) ==
    IF n = 0 THEN <<>> ELSE InsertDescending(SortDescending(items, n - 1), items[n])

sorted_reverse(items) ==
    LET s == SortDescending(items, Len(items))
    IN  [i \in DOMAIN s |-> [key |-> s[i].key, value |-> s[i].value]]

\* {model: (tokens, calculate_cost(tokens, model).total_cost)} in model_usage order
ModelCosts(model_usage) ==
    [i \in DOMAIN model_usage |->
        [key |-> model_usage[i].key,
         value |-> <<model_usage[i].value,
                     total_cost(calculate_cost(model_usage[i].value, model_usage[i].key))>>]]

ByCost(breakdown) ==
    [i \in DOMAIN breakdown |->
        [key |-> breakdown[i].key, value |-> breakdown[i].value,
         sort_key |-> breakdown[i].value[2]]]

\* variant: get_stats() is called without the analyzer's time filter
get_model_breakdown_unfiltered(records, tf) ==
    LET stats == get_stats(records, NoFilter)
    IN  sorted_reverse(ByCost(ModelCosts(stats.model_usage)))

get_model_breakdown(records, tf) ==
    LET stats == get_stats(records, tf)
    IN  sorted_reverse(ByCost(ModelCosts(stats.model_usage)))

\* sum(c for _, c in models.values())
RECURSIVE SumCosts(_, _)
SumCosts(models, n) ==
    IF n = 0 THEN RatZero ELSE RatAdd(SumCosts(models, n - 1), models[n].value[2])

ByTotalCost(projects) ==
    [i \in DOMAIN projects |->
        [key |-> projects[i].key, value |-> projects[i].value,
         sort_key |-> SumCosts(projects[i].value, Len(projects[i].value))]]

\* variant: a project without models gets an entry all the same
RECURSIVE ProjectModelsKeepEmpty(_, _)
ProjectModelsKeepEmpty(project_stats, n) ==
    IF n = 0
    THEN <<>>
    ELSE Append(ProjectModelsKeepEmpty(project_stats, n - 1),
                [key |-> project_stats[n].key,
                 value |-> sorted_reverse(ByCost(ModelCosts(project_stats[n].value.model_usage)))])

\* the projects that have models, each with its models sorted
RECURSIVE ProjectModels(_, _)
ProjectModels(project_stats, n) ==
    IF n = 0
    THEN <<>>
    ELSE LET rest == ProjectModels(project_stats, n - 1)
             project_models == ModelCosts(project_stats[n].value.model_usage)
         IN  IF project_models # <<>>
             THEN Append(rest, [key |-> project_stats[n].key,
                                value |-> sorted_reverse(ByCost(project_models))])
             ELSE rest

\* variant: the projects are left in the parser's order
get_model_by_project_breakdown_unsorted(records, tf) ==
    LET project_stats == get_project_stats(records, tf)
    IN  ProjectModels(project_stats, Len(project_stats))

get_model_by_project_breakdown(records, tf) ==
    LET project_stats == get_project_stats(records, tf)
    IN  sorted_reverse(ByTotalCost(ProjectModels(project_stats, Len(project_stats))))

\* variant: a project is priced model by model
get_project_breakdown_per_model(records, tf) ==
    LET project_stats == get_project_stats(records, tf)
    IN  [i \in DOMAIN project_stats |->
            [key |-> project_stats[i].key,
             value |-> TokenSummary(
                 project_stats[i].value.total_tokens,
                 AccumulateCost(project_stats[i].value.model_usage,
                                Len(project_stats[i].value.model_usage)),
                 cache_efficiency_percentage(project_stats[i].value.total_tokens))]]

\* variant: every project gets the cache efficiency of the grand total
get_project_breakdown_overall_pct(records, tf) ==
    LET project_stats == get_project_stats(records, tf)
        stats == get_stats(records, tf)
    IN  [i \in DOMAIN project_stats |->
            [key |-> project_stats[i].key,
             value |-> TokenSummary(
                 project_stats[i].value.total_tokens,
                 calculate_cost(project_stats[i].value.total_tokens, None),
                 cache_efficiency_percentage(stats.total_tokens))]]

get_project_breakdown(records, tf) ==
    LET project_stats == get_project_stats(records, tf)
    IN  [i \in DOMAIN project_stats |->
            [key |-> project_stats[i].key,
             value |-> TokenSummary(
                 project_stats[i].value.total_tokens,
                 calculate_cost(project_stats[i].value.total_tokens, None),
                 cache_efficiency_percentage(project_stats[i].value.total_tokens))]]

(***************************************************************************)
(* The state machine: the log store grows, the analyzer is queried.        *)
(***************************************************************************)
Init ==
    /\ log = <<>>
    /\ time_filter = NoFilter
    /\ args = NoArgs
    /\ last = "init"
    /\ result = NoResult
    /\ calls = <<>>
    /\ callers = NoCallers
    /\ readable = TRUE
    /\ menu = NoMenu

AppendRecord ==
    /\ Len(log) < MaxLog
    /\ \E session \in Sessions :
          \E event \in EventsOf(session) :
              log' = Append(log, NewRecord(log, session, event, 0))
    /\ last' = "append"
    /\ result' = NoResult
    /\ UNCHANGED <<time_filter, args, calls, callers, readable, menu>>

\* the same logical event is written once more (overlapping read, resumed session)
AppendDuplicate ==
    /\ Len(log) < MaxLog
    /\ \E i \in DOMAIN log : log' = Append(log, log[i])
    /\ last' = "append"
    /\ result' = NoResult
    /\ UNCHANGED <<time_filter, args, calls, callers, readable, menu>>

GetSummary ==
    /\ last' = "get_summary"
    /\ result' = get_summary(log, time_filter)
    /\ UNCHANGED <<log, time_filter, args, calls, callers, readable, menu>>

GetModelBreakdown ==
    /\ last' = "get_model_breakdown"
    /\ result' = get_model_breakdown(log, time_filter)
    /\ UNCHANGED <<log, time_filter, args, calls, callers, readable, menu>>

GetModelByProjectBreakdown ==
    /\ last' = "get_model_by_project_breakdown"
    /\ result' = get_model_by_project_breakdown(log, time_filter)
    /\ UNCHANGED <<log, time_filter, args, calls, callers, readable, menu>>

GetProjectBreakdown ==
    /\ last' = "get_project_breakdown"
    /\ result' = get_project_breakdown(log, time_filter)
    /\ UNCHANGED <<log, time_filter, args, calls, callers, readable, menu>>

Next ==
    \/ AppendRecord
    \/ AppendDuplicate
    \/ GetSummary
    \/ GetModelBreakdown
    \/ GetModelByProjectBreakdown
    \/ GetProjectBreakdown

Spec == Init /\ [][Next]_vars

(***************************************************************************)
(* calculate_cost as a function of its arguments.                          *)
(***************************************************************************)
TokenCounts == {0, 1, Million, 2 * Million}

CostUsages ==
    {TokenUsage(i, o, cw, cr) : i \in TokenCounts, o \in TokenCounts,
                                cw \in TokenCounts, cr \in TokenCounts}

CostModels == {Sonnet, Haiku, Opus, Custom, None}

InitCost ==
    /\ log = <<>>
    /\ time_filter = NoFilter
    /\ args \in [tokens : CostUsages, model : CostModels]
    /\ last = "init"
    /\ result = NoResult
    /\ calls = <<>>
    /\ callers = NoCallers
    /\ readable = TRUE
    /\ menu = NoMenu

CalculateCost ==
    /\ result' = calculate_cost(args.tokens, args.model)
    /\ last' = "calculate_cost"
    /\ UNCHANGED <<log, time_filter, args, calls, callers, readable, menu>>

NextCost == CalculateCost

SpecCost == InitCost /\ [][NextCost]_vars

(***************************************************************************)
(* The analyzer with a time filter over a log store whose records carry    *)
(* different timestamps, some of them malformed.                           *)
(***************************************************************************)
Timestamps == 0..MaxTime

Filters ==
    {NoFilter, AllFilter}
    \cup {Window(w[1], w[2]) : w \in {v \in Timestamps \X Timestamps : v[1] < v[2]}}

TimedEventsOf(session) ==
    IF session = "s1" THEN {<<Sonnet, SmallUsage>>} ELSE {<<Haiku, LargeUsage>>}

\* a record without timestamp, one with a negative counter, one without session id
MalformedRecords(records) ==
    {NewRecord(records, "s1", <<Sonnet, SmallUsage>>, NoTimestamp),
     NewRecord(records, "s1", <<Sonnet, TokenUsage(Million, -1, 0, 0)>>, 0),
     NewRecord(records, "", <<Sonnet, SmallUsage>>, 0)}

InitFilter ==
    /\ log = <<>>
    /\ time_filter \in Filters
    /\ args = NoArgs
    /\ last = "init"
    /\ result = NoResult
    /\ calls = <<>>
    /\ callers = NoCallers
    /\ readable = TRUE
    /\ menu = NoMenu

AppendTimedRecord ==
    /\ Len(log) < MaxTimedLog
    /\ \E session \in Sessions, timestamp \in Timestamps :
          \E event \in TimedEventsOf(session) :
              log' = Append(log, NewRecord(log, session, event, timestamp))
    /\ last' = "append"
    /\ result' = NoResult
    /\ UNCHANGED <<time_filter, args, calls, callers, readable, menu>>

AppendMalformed ==
    /\ Len(log) < MaxTimedLog
    /\ \E r \in MalformedRecords(log) : log' = Append(log, r)
    /\ last' = "append"
    /\ result' = NoResult
    /\ UNCHANGED <<time_filter, args, calls, callers, readable, menu>>

NextFilter ==
    \/ AppendTimedRecord
    \/ AppendMalformed
    \/ GetSummary
    \/ GetModelBreakdown
    \/ GetModelByProjectBreakdown
    \/ GetProjectBreakdown

SpecFilter == InitFilter /\ [][NextFilter]_vars

(***************************************************************************)
(* format_token_count as a function of its argument.  The formatting       *)
(* rounds the double to the nearest decimal, a tie going to the even       *)
(* digit.  count / 1_000 hits x.5 exactly; count / 1_000_000 hits x.25 and *)
(* x.75 exactly, and for any other x.x5 the nearest double lies above or   *)
(* below it: the model takes both.                                         *)
(***************************************************************************)
FormatWindow == 2

Around(n) == (n - FormatWindow)..(n + FormatWindow)

FormatCounts ==
    (0..FormatWindow) \cup Around(500) \cup Around(999) \cup Around(1000)
    \cup Around(1500) \cup Around(2500) \cup Around(458499)
    \cup Around(999500) \cup Around(999999) \cup Around(1000000)
    \cup Around(1050000) \cup Around(1250000) \cup Around(1949999)
    \cup Around(12345678)

\* f"{count / 1_000:.0f}"
FormatThousands(count) ==
    LET k == count \div 1000
        r == count % 1000
    IN  ToString(IF r < 500 \/ (r = 500 /\ k % 2 = 0) THEN k ELSE k + 1)

\* f"{count / 1_000_000:.1f}"
FormatMillions(count, above) ==
    LET t == count \div 100000
        r == count % 100000
        down == IF (2 * t + 1) % 5 = 0 THEN t % 2 = 0 ELSE ~above
        tenths == IF r < 50000 \/ (r = 50000 /\ down) THEN t ELSE t + 1
    IN  ToString(tenths \div 10) \o "." \o ToString(tenths % 10)

\* variant: the thresholds are compared with > in place of >=
format_token_count_strict(count, above) ==
    IF count > 1000000
    THEN FormatMillions(count, above) \o "M"
    ELSE IF count > 1000
         THEN FormatThousands(count) \o "K"
         ELSE ToString(count)

format_token_count(count, above) ==
    IF count >= 1000000
    THEN FormatMillions(count, above) \o "M"
    ELSE IF count >= 1000
         THEN FormatThousands(count) \o "K"
         ELSE ToString(count)

InitFormat ==
    /\ log = <<>>
    /\ time_filter = NoFilter
    /\ args \in [count : FormatCounts]
    /\ last = "init"
    /\ result = NoResult
    /\ calls = <<>>
    /\ callers = NoCallers
    /\ readable = TRUE
    /\ menu = NoMenu

FormatTokenCount ==
    /\ \E above \in BOOLEAN : result' = format_token_count(args.count, above)
    /\ last' = "format_token_count"
    /\ UNCHANGED <<log, time_filter, args, calls, callers, readable, menu>>

NextFormat == FormatTokenCount

SpecFormat == InitFormat /\ [][NextFormat]_vars

(***************************************************************************)
(* InteractiveMenu.map_choices (display/menu.py) as a function of its      *)
(* arguments.                                                              *)
(***************************************************************************)
view_map == ("1" :> None) @@ ("2" :> "features")

timeframe_map ==
    ("T" :> "today") @@ ("W" :> "week") @@ ("M" :> "month")
    @@ ("R" :> "quarter") @@ ("Y" :> "year") @@ ("A" :> "all")

\* variant: timeframe_map.get(timeframe) without the default
map_choices_no_default(view, timeframe) ==
    [focus |-> IF view \in DOMAIN view_map THEN view_map[view] ELSE None,
     time_preset |-> IF timeframe \in DOMAIN timeframe_map
                     THEN timeframe_map[timeframe]
                     ELSE None]

map_choices(view, timeframe) ==
    [focus |-> IF view \in DOMAIN view_map THEN view_map[view] ELSE None,
     time_preset |-> IF timeframe \in DOMAIN timeframe_map
                     THEN timeframe_map[timeframe]
                     ELSE "all"]

ViewChoices == {"1", "2", "Q", "3", ""}

TimeframeChoices ==
    {"T", "W", "M", "R", "Y", "A", "t", "w", "a", "Q", "X", "today", ""}

InitMenu ==
    /\ log = <<>>
    /\ time_filter = NoFilter
    /\ args \in [view : ViewChoices, timeframe : TimeframeChoices]
    /\ last = "init"
    /\ result = NoResult
    /\ calls = <<>>
    /\ callers = NoCallers
    /\ readable = TRUE
    /\ menu = NoMenu

MapChoices ==
    /\ result' = map_choices(args.view, args.timeframe)
    /\ last' = "map_choices"
    /\ UNCHANGED <<log, time_filter, args, calls, callers, readable, menu>>

NextMenu == MapChoices

SpecMenu == InitMenu /\ [][NextMenu]_vars

(***************************************************************************)
(* InteractiveMenu.get_user_choice, one console or prompt call at a time.  *)
(***************************************************************************)
\* the answers Prompt.ask accepts (an empty answer gives the default, one of them)
ViewAnswers == {"1", "2", "q", "Q"}

TimeframeAnswers == {"t", "T", "w", "W", "m", "M", "r", "R", "y", "Y", "a", "A"}

\* str.upper() on the answers
upper ==
    [answer \in ViewAnswers \cup TimeframeAnswers |->
        CASE answer = "q" -> "Q"
          [] answer = "t" -> "T"
          [] answer = "w" -> "W"
          [] answer = "m" -> "M"
          [] answer = "r" -> "R"
          [] answer = "y" -> "Y"
          [] answer = "a" -> "A"
          [] OTHER -> answer]

InitChoice ==
    /\ log = <<>>
    /\ time_filter = NoFilter
    /\ args = NoArgs
    /\ last = "init"
    /\ result = NoResult
    /\ calls = <<>>
    /\ callers = NoCallers
    /\ readable = TRUE
    /\ menu = NoMenu

ShowWelcome ==
    /\ menu.pc = "start"
    /\ menu' = [pc |-> "welcomed", console |-> Append(menu.console, "show_welcome")]
    /\ UNCHANGED <<log, time_filter, args, last, result, calls, callers, readable>>

\* variant: the answer is compared as it was typed
AskViewAsTyped ==
    /\ menu.pc = "welcomed"
    /\ \E answer \in ViewAnswers :
          menu' = [pc |-> "view",
                   console |-> Append(menu.console, "ask_view"),
                   view_answer |-> answer,
                   view |-> answer]
    /\ UNCHANGED <<log, time_filter, args, last, result, calls, callers, readable>>

\* view = Prompt.ask("Select view", ...).upper()
AskView ==
    /\ menu.pc = "welcomed"
    /\ \E answer \in ViewAnswers :
          menu' = [pc |-> "view",
                   console |-> Append(menu.console, "ask_view"),
                   view_answer |-> answer,
                   view |-> upper[answer]]
    /\ UNCHANGED <<log, time_filter, args, last, result, calls, callers, readable>>

\* if view == "Q": return "quit", ""
ReturnQuit ==
    /\ menu.pc = "view"
    /\ menu.view = "Q"
    /\ menu' = [menu EXCEPT !.pc = "returned"]
    /\ last' = "get_user_choice"
    /\ result' = <<"quit", "">>
    /\ UNCHANGED <<log, time_filter, args, calls, callers, readable>>

\* timeframe = Prompt.ask("Select timeframe", ...).upper()
AskTimeframe ==
    /\ menu.pc = "view"
    /\ menu.view # "Q"
    /\ \E answer \in TimeframeAnswers :
          menu' = [pc |-> "timeframe",
                   console |-> Append(menu.console, "ask_timeframe"),
                   view_answer |-> menu.view_answer,
                   view |-> menu.view,
                   timeframe_answer |-> answer,
                   timeframe |-> upper[answer]]
    /\ UNCHANGED <<log, time_filter, args, last, result, calls, callers, readable>>

\* self.console.clear()
ClearConsole ==
    /\ menu.pc = "timeframe"
    /\ menu' = [menu EXCEPT !.pc = "cleared", !.console = Append(menu.console, "clear")]
    /\ UNCHANGED <<log, time_filter, args, last, result, calls, callers, readable>>

\* return view, timeframe
ReturnChoice ==
    /\ menu.pc = "cleared"
    /\ menu' = [menu EXCEPT !.pc = "returned"]
    /\ last' = "get_user_choice"
    /\ result' = <<menu.view, menu.timeframe>>
    /\ UNCHANGED <<log, time_filter, args, calls, callers, readable>>

\* the menu is shown again after a view
GetUserChoice ==
    /\ menu.pc = "returned"
    /\ menu' = NoMenu
    /\ UNCHANGED <<log, time_filter, args, last, result, calls, callers, readable>>

NextChoice ==
    \/ ShowWelcome
    \/ AskView
    \/ ReturnQuit
    \/ AskTimeframe
    \/ ClearConsole
    \/ ReturnChoice
    \/ GetUserChoice

SpecChoice == InitChoice /\ [][NextChoice]_vars

(***************************************************************************)
(* Repeated queries on one snapshot of the log store.                      *)
(***************************************************************************)
MaxCalls == 3

Queries == {"get_summary", "get_model_breakdown",
            "get_model_by_project_breakdown", "get_project_breakdown"}

\* the snapshots: no record, one record, a record of each session
Snapshots ==
    {<<>>}
    \cup {<<NewRecord(<<>>, "s1", <<Sonnet, SmallUsage>>, t)>> : t \in Timestamps}
    \cup {LET first == NewRecord(<<>>, "s1", <<Sonnet, SmallUsage>>, t[1])
          IN  <<first, NewRecord(<<first>>, "s2", <<Haiku, LargeUsage>>, t[2])>> :
          t \in Timestamps \X Timestamps}

InitRepeat ==
    /\ log \in Snapshots
    /\ time_filter \in Filters
    /\ args = NoArgs
    /\ last = "init"
    /\ result = NoResult
    /\ calls = <<>>
    /\ callers = NoCallers
    /\ readable = TRUE
    /\ menu = NoMenu

\* a query returns to its caller, who keeps what it got
Returned(query, returned) ==
    /\ Len(calls) < MaxCalls
    /\ last' = query
    /\ result' = returned
    /\ calls' = Append(calls, [query |-> query, result |-> returned])
    /\ UNCHANGED <<log, time_filter, args, callers, readable, menu>>

CallGetSummary == Returned("get_summary", get_summary(log, time_filter))

CallGetModelBreakdown ==
    Returned("get_model_breakdown", get_model_breakdown(log, time_filter))

CallGetModelByProjectBreakdown ==
    Returned("get_model_by_project_breakdown",
             get_model_by_project_breakdown(log, time_filter))

CallGetProjectBreakdown ==
    Returned("get_project_breakdown", get_project_breakdown(log, time_filter))

NextRepeat ==
    \/ CallGetSummary
    \/ CallGetModelBreakdown
    \/ CallGetModelByProjectBreakdown
    \/ CallGetProjectBreakdown

SpecRepeat == InitRepeat /\ [][NextRepeat]_vars

(***************************************************************************)
(* Concurrent callers on one analyzer: a call is a read of the parser, the *)
(* pricing loop of get_summary one model at a time, and the return.        *)
(***************************************************************************)
InitConcurrent ==
    /\ log \in Snapshots
    /\ time_filter \in Filters
    /\ args = NoArgs
    /\ last = "init"
    /\ result = NoResult
    /\ calls = <<>>
    /\ callers = NoCallers
    /\ readable = TRUE
    /\ menu = NoMenu

\* a caller enters a query method
Start(c) ==
    /\ callers[c].pc = "idle"
    /\ \E query \in Queries :
          callers' = [callers EXCEPT ![c] = [pc |-> "called", query |-> query]]
    /\ UNCHANGED <<log, time_filter, args, last, result, calls, readable, menu>>

\* stats = self.session_parser.get_stats(...) or get_project_stats(...), and
\* the zero accumulators of get_summary
Read(c) ==
    /\ callers[c].pc = "called"
    /\ readable
    /\ callers' = [callers EXCEPT ![c] =
          [pc |-> "read",
           query |-> callers[c].query,
           stats |-> IF callers[c].query \in {"get_summary", "get_model_breakdown"}
                     THEN get_stats(log, time_filter)
                     ELSE get_project_stats(log, time_filter),
           priced |-> 0,
           total_cost |-> CostBreakdown(RatZero, RatZero, RatZero, RatZero)]]
    /\ UNCHANGED <<log, time_filter, args, last, result, calls, readable, menu>>

\* total_cost after the cost of one more model is added to it
AddModelCost(total, model_usage, n) ==
    LET model_cost == calculate_cost(model_usage[n].value, model_usage[n].key)
    IN  CostBreakdown(RatAdd(total.input_cost, model_cost.input_cost),
                      RatAdd(total.output_cost, model_cost.output_cost),
                      RatAdd(total.cache_write_cost, model_cost.cache_write_cost),
                      RatAdd(total.cache_read_cost, model_cost.cache_read_cost))

\* variant: total_cost is a field of the analyzer, one for all the callers
PriceModelShared(c) ==
    /\ callers[c].pc = "read"
    /\ callers[c].query = "get_summary"
    /\ callers[c].priced < Len(callers[c].stats.model_usage)
    /\ LET n == callers[c].priced + 1
           total == AddModelCost(callers[c].total_cost, callers[c].stats.model_usage, n)
       IN  callers' = [d \in Callers |->
               IF d = c
               THEN [callers[c] EXCEPT !.priced = n, !.total_cost = total]
               ELSE IF callers[d].pc = "read" /\ callers[d].query = "get_summary"
                    THEN [callers[d] EXCEPT !.total_cost = total]
                    ELSE callers[d]]
    /\ UNCHANGED <<log, time_filter, args, last, result, calls, readable, menu>>

\* one turn of the loop of get_summary over stats.model_usage.items()
PriceModel(c) ==
    /\ callers[c].pc = "read"
    /\ callers[c].query = "get_summary"
    /\ callers[c].priced < Len(callers[c].stats.model_usage)
    /\ LET n == callers[c].priced + 1
           total == AddModelCost(callers[c].total_cost, callers[c].stats.model_usage, n)
       IN  callers' = [callers EXCEPT ![c] =
               [callers[c] EXCEPT !.priced = n, !.total_cost = total]]
    /\ UNCHANGED <<log, time_filter, args, last, result, calls, readable, menu>>

\* what a query builds from its locals and returns
ReturnValue(caller) ==
    CASE caller.query = "get_summary" ->
           TokenSummary(caller.stats.total_tokens, caller.total_cost,
                        cache_efficiency_percentage(caller.stats.total_tokens))
      [] caller.query = "get_model_breakdown" ->
           sorted_reverse(ByCost(ModelCosts(caller.stats.model_usage)))
      [] caller.query = "get_model_by_project_breakdown" ->
           sorted_reverse(ByTotalCost(ProjectModels(caller.stats, Len(caller.stats))))
      [] caller.query = "get_project_breakdown" ->
           [i \in DOMAIN caller.stats |->
               [key |-> caller.stats[i].key,
                value |-> TokenSummary(
                    caller.stats[i].value.total_tokens,
                    calculate_cost(caller.stats[i].value.total_tokens, None),
                    cache_efficiency_percentage(caller.stats[i].value.total_tokens))]]

Return(c) ==
    /\ callers[c].pc = "read"
    /\ callers[c].query = "get_summary" =>
          callers[c].priced = Len(callers[c].stats.model_usage)
    /\ callers' = [callers EXCEPT ![c] =
          [pc |-> "done", query |-> callers[c].query,
           result |-> ReturnValue(callers[c])]]
    /\ UNCHANGED <<log, time_filter, args, last, result, calls, readable, menu>>

\* the caller has taken the result and may call again
Done(c) ==
    /\ callers[c].pc = "done"
    /\ callers' = [callers EXCEPT ![c] = Idle]
    /\ UNCHANGED <<log, time_filter, args, last, result, calls, readable, menu>>

NextConcurrent ==
    \/ \E c \in Callers : Start(c)
    \/ \E c \in Callers : Read(c)
    \/ \E c \in Callers : PriceModel(c)
    \/ \E c \in Callers : Return(c)
    \/ \E c \in Callers : Done(c)

SpecConcurrent == InitConcurrent /\ [][NextConcurrent]_vars

(***************************************************************************)
(* The costs as the floats they are: every operation on them rounds its    *)
(* exact result to the nearest value with a mantissa of MantissaBits bits, *)
(* ties to even (53 bits in CPython).  Token counts are integers.          *)
(***************************************************************************)
MantissaBits == 8

RECURSIVE Pow2(_)
Pow2(n) == IF n = 0 THEN 1 ELSE 2 * Pow2(n - 1)

Pow2Rat(e) == IF e >= 0 THEN RatInt(Pow2(e)) ELSE Rat(1, Pow2(-e))

\* the e with 2^e <= x < 2^(e+1), for x > 0
RECURSIVE Exponent(_, _)
Exponent(x, e) ==
    IF RatLess(x, Pow2Rat(e))
    THEN Exponent(x, e - 1)
    ELSE IF RatLeq(Pow2Rat(e + 1), x) THEN Exponent(x, e + 1) ELSE e

\* the rational m >= 0 rounded to the nearest integer, ties to the even one
RoundHalfEven(m) ==
    LET down == m.num \div m.den
        twice == 2 * (m.num % m.den)
    IN  IF twice > m.den \/ (twice = m.den /\ down % 2 = 1) THEN down + 1 ELSE down

\* the float nearest to the rational a > 0, whose last mantissa bit is worth ulp
FloatOf(a, ulp) == RatMul(RatInt(RoundHalfEven(RatDiv(a, ulp))), ulp)

\* the float nearest to the rational x
Float(x) ==
    IF x.num = 0
    THEN RatZero
    ELSE IF x.num < 0
         THEN RatNeg(FloatOf(RatNeg(x), Pow2Rat(Exponent(RatNeg(x), 0) - MantissaBits + 1)))
         ELSE FloatOf(x, Pow2Rat(Exponent(x, 0) - MantissaBits + 1))

FloatAdd(a, b) == Float(RatAdd(a, b))
FloatSub(a, b) == Float(RatSub(a, b))
FloatMul(a, b) == Float(RatMul(a, b))
FloatDiv(a, b) == Float(RatDiv(a, b))

\* the literals of the pricing table as floats
FloatPricing(pricing) == [rate \in DOMAIN pricing |-> Float(pricing[rate])]

calculate_cost_float(tokens, model) ==
    LET pricing == FloatPricing(PricingFor(model))
        Cost(count, rate) == FloatMul(FloatDiv(RatInt(count), RatInt(Million)), rate)
    IN  CostBreakdown(
            Cost(tokens.input_tokens, pricing.input_per_mtok),
            Cost(tokens.output_tokens, pricing.output_per_mtok),
            Cost(tokens.cache_creation_input_tokens, pricing.cache_write_per_mtok),
            Cost(tokens.cache_read_input_tokens, pricing.cache_read_per_mtok))

total_cost_float(cb) ==
    FloatAdd(FloatAdd(FloatAdd(cb.input_cost, cb.output_cost), cb.cache_write_cost),
             cb.cache_read_cost)

\* variant: the cost of the cache reads is not taken off
cache_savings_float_gross(cb) ==
    LET pricing == FloatPricing(DEFAULT_PRICING)
    IN  FloatMul(FloatDiv(cb.cache_read_cost, pricing.cache_read_per_mtok),
                 pricing.input_per_mtok)

cache_savings_float(cb) ==
    LET pricing == FloatPricing(DEFAULT_PRICING)
        regular_cost == FloatMul(FloatDiv(cb.cache_read_cost, pricing.cache_read_per_mtok),
                                 pricing.input_per_mtok)
    IN  FloatSub(regular_cost, cb.cache_read_cost)

RECURSIVE AccumulateCostFloat(_, _)
AccumulateCostFloat(model_usage, n) ==
    IF n = 0
    THEN CostBreakdown(RatZero, RatZero, RatZero, RatZero)
    ELSE LET acc == AccumulateCostFloat(model_usage, n - 1)
             model_cost == calculate_cost_float(model_usage[n].value, model_usage[n].key)
         IN  CostBreakdown(FloatAdd(acc.input_cost, model_cost.input_cost),
                           FloatAdd(acc.output_cost, model_cost.output_cost),
                           FloatAdd(acc.cache_write_cost, model_cost.cache_write_cost),
                           FloatAdd(acc.cache_read_cost, model_cost.cache_read_cost))

get_summary_float(records, tf) ==
    LET stats == get_stats(records, tf)
    IN  TokenSummary(stats.total_tokens,
                     AccumulateCostFloat(stats.model_usage, Len(stats.model_usage)),
                     cache_efficiency_percentage(stats.total_tokens))

\* variant: every model is priced at the default rates
ModelCostsFloatAtDefault(model_usage) ==
    [i \in DOMAIN model_usage |->
        [key |-> model_usage[i].key,
         value |-> <<model_usage[i].value,
                     total_cost_float(calculate_cost_float(model_usage[i].value, None))>>]]

ModelCostsFloat(model_usage) ==
    [i \in DOMAIN model_usage |->
        [key |-> model_usage[i].key,
         value |-> <<model_usage[i].value,
                     total_cost_float(calculate_cost_float(model_usage[i].value,
                                                           model_usage[i].key))>>]]

get_model_breakdown_float(records, tf) ==
    LET stats == get_stats(records, tf)
    IN  sorted_reverse(ByCost(ModelCostsFloat(stats.model_usage)))

\* usages that go through the cache, in whole millions of tokens
FloatUsages ==
    {TokenUsage(0, 0, 0, Million), TokenUsage(0, 0, Million, Million),
     TokenUsage(0, 0, 0, 3 * Million), LargeUsage}

FloatModels == {Sonnet, Haiku, Opus}

\* the snapshots: no record, one record, a record of each session
FloatSnapshots ==
    {<<>>}
    \cup {<<NewRecord(<<>>, "s1", <<m, u>>, 0)>> : m \in FloatModels, u \in FloatUsages}
    \cup {LET first == NewRecord(<<>>, "s1", <<e[1], e[2]>>, 0)
          IN  <<first, NewRecord(<<first>>, "s2", <<e[3], e[4]>>, 0)>> :
          e \in FloatModels \X FloatUsages \X FloatModels \X FloatUsages}

InitFloat ==
    /\ log \in FloatSnapshots
    /\ time_filter = NoFilter
    /\ args = NoArgs
    /\ last = "init"
    /\ result = NoResult
    /\ calls = <<>>
    /\ callers = NoCallers
    /\ readable = TRUE
    /\ menu = NoMenu

FloatGetSummary == Returned("get_summary", get_summary_float(log, time_filter))

FloatGetModelBreakdown ==
    Returned("get_model_breakdown", get_model_breakdown_float(log, time_filter))

NextFloat ==
    \/ FloatGetSummary
    \/ FloatGetModelBreakdown

SpecFloat == InitFloat /\ [][NextFloat]_vars

(***************************************************************************)
(* DisplayFormatter.create_progress_bar, a pure function of two arguments. *)
(***************************************************************************)
MaxWidth == 20

Filled == "filled"  \* the character of the filled part of the bar
Empty == "empty"    \* the character of the empty part

\* ch * n: n copies of a character, none for n <= 0
Repeat(ch, n) == [i \in 1..n |-> ch]

\* int(x): x without its fraction
Truncate(x) == IF x.num < 0 THEN -((-x.num) \div x.den) ELSE x.num \div x.den

\* variant: the number of filled characters is rounded to the nearest
create_progress_bar_rounded(percentage, width) ==
    LET product == FloatMul(FloatDiv(percentage, RatInt(100)), RatInt(width))
        filled == Truncate(RatAdd(product, Rat(1, 2)))
        empty == width - filled
    IN  Repeat(Filled, filled) \o Repeat(Empty, empty)

create_progress_bar(percentage, width) ==
    LET filled == Truncate(FloatMul(FloatDiv(percentage, RatInt(100)), RatInt(width)))
        empty == width - filled
    IN  Repeat(Filled, filled) \o Repeat(Empty, empty)

\* the percentages from 0 to 100 in steps of a half
Percentages == {Rat(k, 2) : k \in 0..200}

Widths == 0..MaxWidth

InitBar ==
    /\ log = <<>>
    /\ time_filter = NoFilter
    /\ args \in [percentage : Percentages, width : Widths]
    /\ last = "init"
    /\ result = NoResult
    /\ calls = <<>>
    /\ callers = NoCallers
    /\ readable = TRUE
    /\ menu = NoMenu

CreateProgressBar ==
    /\ last' = "create_progress_bar"
    /\ result' = create_progress_bar(args.percentage, args.width)
    /\ UNCHANGED <<log, time_filter, args, calls, callers, readable, menu>>

NextBar == CreateProgressBar

SpecBar == InitBar /\ [][NextBar]_vars

(***************************************************************************)
(* MetricTables: the rows of the two project tables.  A cell holds the     *)
(* value that the code goes on to format.                                  *)
(***************************************************************************)
MaxLimit == 2

Limits == 0..MaxLimit

\* path.split('/')[-1] if '/' in path else path
project_name(path) ==
    CASE path = "/home/user/alpha" -> "alpha"
      [] path = "/home/user/beta" -> "beta"
      [] OTHER -> path

\* model_name.replace("claude-", "").split("-")[0].title() if "claude-" in
\* model_name else model_name
simple_name(model_name) ==
    CASE model_name = Sonnet -> "Sonnet"
      [] model_name = Haiku -> "Haiku"
      [] model_name = Opus -> "Opus"
      [] OTHER -> model_name

\* the row "No project data"
Placeholder == [kind |-> "placeholder"]

\* the first n entries of a mapping, none for n <= 0
FirstEntries(mapping, n) ==
    SubSeq(mapping, 1, IF n < Len(mapping) THEN n ELSE Len(mapping))

ProjectTokensRow(entry) ==
    [kind |-> "row",
     project |-> project_name(entry.key),
     tokens |-> total_input_tokens(entry.value.total_tokens)
                   + entry.value.total_tokens.output_tokens,
     cost |-> summary_total_cost(entry.value),
     cache |-> entry.value.cache_efficiency_pct]

\* variant: the loop stops one entry late (i > limit)
create_project_tokens_table_late(project_tokens, limit) ==
    LET shown == FirstEntries(project_tokens, limit + 1)
        rows == [i \in DOMAIN shown |-> ProjectTokensRow(shown[i])]
    IN  IF project_tokens = <<>> THEN Append(rows, Placeholder) ELSE rows

create_project_tokens_table(project_tokens, limit) ==
    LET shown == FirstEntries(project_tokens, limit)
        rows == [i \in DOMAIN shown |-> ProjectTokensRow(shown[i])]
    IN  IF project_tokens = <<>> THEN Append(rows, Placeholder) ELSE rows

ModelByProjectRow(entry) ==
    LET models == entry.value
        top == FirstEntries(models, 2)
    IN  [kind |-> "row",
         project |-> project_name(entry.key),
         models |-> [i \in DOMAIN top |->
                        [name |-> simple_name(top[i].key), cost |-> top[i].value[2]]],
         more |-> IF Len(models) > 2 THEN Len(models) - 2 ELSE 0]

create_model_by_project_table(project_model_breakdown, limit) ==
    LET shown == FirstEntries(project_model_breakdown, limit)
        rows == [i \in DOMAIN shown |-> ModelByProjectRow(shown[i])]
    IN  IF project_model_breakdown = <<>> THEN Append(rows, Placeholder) ELSE rows

CreateProjectTokensTable ==
    /\ \E limit \in Limits :
          /\ args' = [limit |-> limit]
          /\ result' = create_project_tokens_table(
                           get_project_breakdown(log, time_filter), limit)
    /\ last' = "create_project_tokens_table"
    /\ UNCHANGED <<log, time_filter, calls, callers, readable, menu>>

CreateModelByProjectTable ==
    /\ \E limit \in Limits :
          /\ args' = [limit |-> limit]
          /\ result' = create_model_by_project_table(
                           get_model_by_project_breakdown(log, time_filter), limit)
    /\ last' = "create_model_by_project_table"
    /\ UNCHANGED <<log, time_filter, calls, callers, readable, menu>>

\* a record is appended to the log store between two renderings
AppendForTables ==
    /\ Len(log) < MaxLog
    /\ \E session \in Sessions :
          \E event \in EventsOf(session) :
              log' = Append(log, NewRecord(log, session, event, 0))
    /\ last' = "append"
    /\ result' = NoResult
    /\ args' = NoArgs
    /\ UNCHANGED <<time_filter, calls, callers, readable, menu>>

NextTables ==
    \/ AppendForTables
    \/ CreateProjectTokensTable
    \/ CreateModelByProjectTable

SpecTables == Init /\ [][NextTables]_vars

(***************************************************************************)
(* Queries over a log store that cannot be read: the parser raises, and    *)
(* the query methods have no try statement and no loop around the call.    *)
(***************************************************************************)
InitFailure ==
    /\ log \in Snapshots
    /\ time_filter \in Filters
    /\ args = NoArgs
    /\ last = "init"
    /\ result = NoResult
    /\ calls = <<>>
    /\ callers = NoCallers
    /\ readable \in BOOLEAN
    /\ menu = NoMenu

\* what a query returns over no record at all
ZeroResult(query) ==
    IF query = "get_summary"
    THEN TokenSummary(ZeroUsage, CostBreakdown(RatZero, RatZero, RatZero, RatZero), RatZero)
    ELSE <<>>

\* variant: the failure of the read is caught and a zero-valued result returned
ReadFailsSwallowed(c) ==
    /\ callers[c].pc = "called"
    /\ ~readable
    /\ callers' = [callers EXCEPT ![c] =
          [pc |-> "done", query |-> callers[c].query,
           result |-> ZeroResult(callers[c].query)]]
    /\ UNCHANGED <<log, time_filter, args, last, result, calls, readable, menu>>

\* the call of the parser raises; nothing around it catches, so the error
\* leaves the query method after this one call of the parser
ReadFails(c) ==
    /\ callers[c].pc = "called"
    /\ ~readable
    /\ callers' = [callers EXCEPT ![c] =
          [pc |-> "raised", query |-> callers[c].query, reads |-> 1]]
    /\ UNCHANGED <<log, time_filter, args, last, result, calls, readable, menu>>

\* the caller has the error and may call again
Raised(c) ==
    /\ callers[c].pc = "raised"
    /\ callers' = [callers EXCEPT ![c] = Idle]
    /\ UNCHANGED <<log, time_filter, args, last, result, calls, readable, menu>>

NextFailure ==
    \/ \E c \in Callers : Start(c)
    \/ \E c \in Callers : Read(c)
    \/ \E c \in Callers : ReadFails(c)
    \/ \E c \in Callers : PriceModel(c)
    \/ \E c \in Callers : Return(c)
    \/ \E c \in Callers : Done(c)
    \/ \E c \in Callers : Raised(c)

SpecFailure == InitFailure /\ [][NextFailure]_vars

(***************************************************************************)
(* Properties                                                              *)
(***************************************************************************)
CostFields == {"input_cost", "output_cost", "cache_write_cost", "cache_read_cost"}

\* the sum, over a set of models, of one cost field of each model's own cost
RECURSIVE SumOverModels(_, _, _)
SumOverModels(model_usage, models, field) ==
    IF models = {}
    THEN RatZero
    ELSE LET m == CHOOSE x \in models : TRUE
         IN  RatAdd(calculate_cost(Lookup(model_usage, m), m)[field],
                    SumOverModels(model_usage, models \ {m}, field))

\* C1: each cost field of get_summary().cost_breakdown is the sum, over the
\* models of model_usage, of that field of calculate_cost(model_usage[m], m);
\* the grand total is never priced at one rate.
C1_SummaryPricesEachModel ==
    last = "get_summary" =>
        LET model_usage == get_stats(log, time_filter).model_usage
        IN  \A field \in CostFields :
                result.cost_breakdown[field]
                    = SumOverModels(model_usage, Keys(model_usage), field)

\* 1,000,000 input tokens on Sonnet and 1,000,000 on Opus: input cost 18.00
C1_Witness ==
    /\ last = "get_summary"
    /\ LET model_usage == get_stats(log, time_filter).model_usage
       IN  /\ Keys(model_usage) = {Sonnet, Opus}
           /\ Lookup(model_usage, Sonnet) = SmallUsage
           /\ Lookup(model_usage, Opus) = SmallUsage
    /\ result.cost_breakdown.input_cost = RatInt(18)

\* count * rate, the cost of a category multiplied by 1,000,000
PerMillion(count, rate) == RatMul(RatInt(count), rate)

\* C2: for a model of the pricing table calculate_cost returns, per category,
\* count / 1,000,000 * the model's rate, unrounded, and total_cost is the sum
\* of the four; 2,000,000 input and 1,000,000 output tokens on Sonnet cost
\* 6.00 + 15.00 = 21.00.
C2_CostIsCountTimesRate ==
    (last = "calculate_cost" /\ args.model \in DOMAIN MODEL_PRICING) =>
        LET t == args.tokens
            rate == MODEL_PRICING[args.model]
        IN  /\ RatMul(result.input_cost, RatInt(Million))
                  = PerMillion(t.input_tokens, rate.input_per_mtok)
            /\ RatMul(result.output_cost, RatInt(Million))
                  = PerMillion(t.output_tokens, rate.output_per_mtok)
            /\ RatMul(result.cache_write_cost, RatInt(Million))
                  = PerMillion(t.cache_creation_input_tokens, rate.cache_write_per_mtok)
            /\ RatMul(result.cache_read_cost, RatInt(Million))
                  = PerMillion(t.cache_read_input_tokens, rate.cache_read_per_mtok)
            /\ RatMul(total_cost(result), RatInt(Million))
                  = RatAdd(RatAdd(PerMillion(t.input_tokens, rate.input_per_mtok),
                                  PerMillion(t.output_tokens, rate.output_per_mtok)),
                           RatAdd(PerMillion(t.cache_creation_input_tokens,
                                             rate.cache_write_per_mtok),
                                  PerMillion(t.cache_read_input_tokens,
                                             rate.cache_read_per_mtok)))
            /\ (args.model = Sonnet /\ t = TokenUsage(2 * Million, Million, 0, 0)) =>
                  /\ result.input_cost = RatInt(6)
                  /\ result.output_cost = RatInt(15)
                  /\ total_cost(result) = RatInt(21)

C2_Witness ==
    /\ last = "calculate_cost"
    /\ args.model = Sonnet
    /\ args.tokens = TokenUsage(2 * Million, Million, 0, 0)
    /\ total_cost(result) = RatInt(21)

\* C3: with a model that is no key of the pricing table, or with no model,
\* calculate_cost returns the CostBreakdown of the Sonnet 4.5 entry; the call
\* always ends with a CostBreakdown.
C3_UnknownModelUsesDefault ==
    last = "calculate_cost" =>
        /\ DOMAIN result = CostFields
        /\ args.model \notin DOMAIN MODEL_PRICING =>
              result = calculate_cost(args.tokens, Sonnet)

C3_Witness ==
    /\ last = "calculate_cost"
    /\ args.model = None
    /\ args.tokens = TokenUsage(Million, Million, Million, Million)
    /\ result = CostBreakdown(RatInt(3), RatInt(15), Rat(15, 4), Rat(3, 10))

\* the field-wise sum of the first n TokenUsage values of a list
RECURSIVE SumUsages(_, _)
SumUsages(usages, n) ==
    IF n = 0 THEN ZeroUsage ELSE AddUsage(SumUsages(usages, n - 1), usages[n])

ModelUsages(stats) == [i \in DOMAIN stats.model_usage |-> stats.model_usage[i].value]

ProjectTotals(project_stats) ==
    [i \in DOMAIN project_stats |-> project_stats[i].value.total_tokens]

FirstOccurrences(records) ==
    LET first == {i \in DOMAIN records :
                     \A j \in 1..(i - 1) : RecordId(records[j]) # RecordId(records[i])}
        nth(k) == CHOOSE i \in first : Cardinality({j \in first : j < i}) = k - 1
    IN  [k \in 1..Cardinality(first) |-> records[nth(k)]]

HasCopy(records) ==
    \E i, j \in DOMAIN records : i < j /\ RecordId(records[i]) = RecordId(records[j])

\* C5: copies of records that are already there change nothing: the stats
\* and the project stats are those of the records without the copies.
C5_CopiesChangeNothing ==
    /\ get_stats(log, time_filter) = get_stats(FirstOccurrences(log), time_filter)
    /\ get_project_stats(log, time_filter)
          = get_project_stats(FirstOccurrences(log), time_filter)

C5_Witness ==
    /\ HasCopy(log)
    /\ Len(FirstOccurrences(log)) = 2
    /\ get_stats(log, time_filter).total_tokens.input_tokens = 3 * Million
    /\ \E i, j \in DOMAIN log : i < j /\ log[i] = log[j] /\ log[i].usage = LargeUsage

Position(map, key) == CHOOSE i \in DOMAIN map : map[i].key = key

\* C6: get_model_breakdown has one entry per model of model_usage and no
\* other, each with the model's usage and the total cost of
\* calculate_cost(usage, model); the costs descend, and models of equal cost
\* stay in the order of model_usage.
C6_ModelBreakdownSortedStable ==
    last = "get_model_breakdown" =>
        LET model_usage == get_stats(log, time_filter).model_usage
        IN  /\ Len(result) = Len(model_usage)
            /\ Keys(result) = Keys(model_usage)
            /\ Cardinality(Keys(result)) = Len(result)
            /\ \A i \in DOMAIN result :
                  LET usage == Lookup(model_usage, result[i].key)
                  IN  result[i].value
                        = <<usage, total_cost(calculate_cost(usage, result[i].key))>>
            /\ \A i, j \in DOMAIN result :
                  i < j =>
                    /\ RatLeq(result[j].value[2], result[i].value[2])
                    /\ result[i].value[2] = result[j].value[2] =>
                          Position(model_usage, result[i].key)
                            < Position(model_usage, result[j].key)

\* Sonnet, the unknown model and Opus came in this order; Opus goes first and
\* the two of equal cost keep their order
C6_Witness ==
    /\ last = "get_model_breakdown"
    /\ LET model_usage == get_stats(log, time_filter).model_usage
       IN  /\ Len(model_usage) = 3
           /\ model_usage[1].key = Sonnet
           /\ model_usage[2].key = Custom
           /\ model_usage[3].key = Opus
    /\ result[1].key = Opus
    /\ result[2].key = Sonnet
    /\ result[3].key = Custom
    /\ result[2].value[2] = result[3].value[2]

\* the costs of the models of a project, added from the last to the first
RECURSIVE ProjectCost(_, _)
ProjectCost(models, i) ==
    IF i > Len(models) THEN RatZero ELSE RatAdd(models[i].value[2], ProjectCost(models, i + 1))

\* C7: in get_model_by_project_breakdown the models of every project descend
\* by cost and the projects descend by the sum of their models' costs.
C7_NestedBreakdownSorted ==
    last = "get_model_by_project_breakdown" =>
        /\ \A p \in DOMAIN result :
              \A i, j \in DOMAIN result[p].value :
                  i < j => RatLeq(result[p].value[j].value[2], result[p].value[i].value[2])
        /\ \A p, q \in DOMAIN result :
              p < q => RatLeq(ProjectCost(result[q].value, 1), ProjectCost(result[p].value, 1))

\* the project seen second costs more and goes first; its models changed places
C7_Witness ==
    /\ last = "get_model_by_project_breakdown"
    /\ LET project_stats == get_project_stats(log, time_filter)
       IN  /\ Len(project_stats) = 2
           /\ Len(result) = 2
           /\ result[1].key = project_stats[2].key
           /\ Len(result[1].value) = 2
           /\ result[1].value[1].key = project_stats[2].value.model_usage[2].key
           /\ RatLess(result[1].value[2].value[2], result[1].value[1].value[2])
           /\ RatLess(ProjectCost(result[2].value, 1), ProjectCost(result[1].value, 1))

\* C8: the projects of get_project_breakdown come in descending order of
\* total cost.
C8_ProjectBreakdownSorted ==
    last = "get_project_breakdown" =>
        \A p, q \in DOMAIN result :
            p < q => RatLeq(total_cost(result[q].value.cost_breakdown),
                            total_cost(result[p].value.cost_breakdown))

\* C9: get_project_breakdown holds one TokenSummary per project of the
\* parser, with the project's merged usage and the cost of that usage at the
\* rates of the default entry, whatever models the project used.
C9_ProjectPricedAtDefault ==
    last = "get_project_breakdown" =>
        LET project_stats == get_project_stats(log, time_filter)
            rate == DEFAULT_PRICING
        IN  /\ Len(result) = Len(project_stats)
            /\ Cardinality(Keys(result)) = Len(result)
            /\ \A p \in DOMAIN result :
                  LET t == project_stats[p].value.total_tokens
                      cost == result[p].value.cost_breakdown
                  IN  /\ result[p].key = project_stats[p].key
                      /\ result[p].value.total_tokens = t
                      /\ RatMul(cost.input_cost, RatInt(Million))
                            = PerMillion(t.input_tokens, rate.input_per_mtok)
                      /\ RatMul(cost.output_cost, RatInt(Million))
                            = PerMillion(t.output_tokens, rate.output_per_mtok)
                      /\ RatMul(cost.cache_write_cost, RatInt(Million))
                            = PerMillion(t.cache_creation_input_tokens,
                                         rate.cache_write_per_mtok)
                      /\ RatMul(cost.cache_read_cost, RatInt(Million))
                            = PerMillion(t.cache_read_input_tokens,
                                         rate.cache_read_per_mtok)

\* a project that used Opus and Haiku only is priced at the Sonnet rates
C9_Witness ==
    /\ last = "get_project_breakdown"
    /\ LET project_stats == get_project_stats(log, time_filter)
       IN  \E p \in DOMAIN result :
               /\ Keys(project_stats[p].value.model_usage) = {Opus, Haiku}
               /\ result[p].value.total_tokens = AddUsage(SmallUsage, LargeUsage)
               /\ result[p].value.cost_breakdown
                     = CostBreakdown(RatInt(9), RatInt(15), Rat(15, 4), Rat(6, 10))

\* C10: cache_savings is cache_read_cost / default cache-read rate * default
\* input rate - cache_read_cost, at the default rates whatever the model, and
\* is decided by cache_read_cost alone.
C10_CacheSavingsAtDefaultRates ==
    last = "calculate_cost" =>
        /\ RatMul(cache_savings(result), DEFAULT_PRICING.cache_read_per_mtok)
              = RatMul(result.cache_read_cost,
                       RatSub(DEFAULT_PRICING.input_per_mtok,
                              DEFAULT_PRICING.cache_read_per_mtok))
        /\ cache_savings(result)
              = cache_savings(CostBreakdown(RatZero, RatZero, RatZero, result.cache_read_cost))

\* 2,000,000 cache-read tokens on Opus cost 3.00; the savings are 27.00
C10_Witness ==
    /\ last = "calculate_cost"
    /\ args.model = Opus
    /\ args.tokens = TokenUsage(Million, Million, Million, 2 * Million)
    /\ result.cache_read_cost = RatInt(3)
    /\ cache_savings(result) = RatInt(27)

\* C11: the default entry has input rate >= cache-read rate > 0, and every
\* CostBreakdown that calculate_cost produces from non-negative counts has
\* cache_read_cost >= 0 and cache_savings >= 0.
C11_CacheSavingsNonNegative ==
    /\ RatLess(RatZero, DEFAULT_PRICING.cache_read_per_mtok)
    /\ RatLeq(DEFAULT_PRICING.cache_read_per_mtok, DEFAULT_PRICING.input_per_mtok)
    /\ last = "calculate_cost" =>
          /\ RatLeq(RatZero, result.cache_read_cost)
          /\ RatLeq(RatZero, cache_savings(result))

\* one cache-read token on Haiku: a positive cost and positive savings
C11_Witness ==
    /\ last = "calculate_cost"
    /\ args.model = Haiku
    /\ args.tokens.cache_read_input_tokens = 1
    /\ RatLess(RatZero, result.cache_read_cost)
    /\ RatLess(RatZero, cache_savings(result))

Presets == {"today", "week", "month", "quarter", "year", "all"}

\* C17: map_choices maps T, W, M, R, Y, A to today, week, month, quarter,
\* year, all, and any other timeframe, the empty string too, to all; the
\* time_preset is always one of the six presets.
C17_TimeframeDefaultsToAll ==
    last = "map_choices" =>
        LET tf == args.timeframe
            preset == result.time_preset
        IN  /\ preset \in Presets
            /\ tf = "T" => preset = "today"
            /\ tf = "W" => preset = "week"
            /\ tf = "M" => preset = "month"
            /\ tf = "R" => preset = "quarter"
            /\ tf = "Y" => preset = "year"
            /\ tf = "A" => preset = "all"
            /\ tf \notin {"T", "W", "M", "R", "Y", "A"} => preset = "all"

C17_Witness ==
    /\ last = "map_choices"
    /\ args.timeframe = ""
    /\ args.view = "2"
    /\ result.time_preset = "all"

\* 100 * cache_read / (input + cache_creation + cache_read), 0 over 0, in [0, 100]
IsCacheEfficiencyOf(pct, u) ==
    LET denominator == u.input_tokens + u.cache_creation_input_tokens
                         + u.cache_read_input_tokens
    IN  /\ denominator = 0 => pct = RatZero
        /\ RatMul(pct, RatInt(denominator))
              = RatMul(RatInt(100), RatInt(u.cache_read_input_tokens))
        /\ RatLeq(RatZero, pct)
        /\ RatLeq(pct, RatInt(100))

\* C20: the cache_efficiency_pct of every TokenSummary of get_summary and of
\* get_project_breakdown is 100 * cache_read_input_tokens / (input_tokens +
\* cache_creation_input_tokens + cache_read_input_tokens) of its
\* total_tokens, 0 when that sum is 0, and lies in [0, 100].
C20_CacheEfficiencyPct ==
    /\ last = "get_summary" =>
          IsCacheEfficiencyOf(result.cache_efficiency_pct, result.total_tokens)
    /\ last = "get_project_breakdown" =>
          \A p \in DOMAIN result :
              IsCacheEfficiencyOf(result[p].value.cache_efficiency_pct,
                                  result[p].value.total_tokens)

\* one project at 40 percent, the other without cache reads
C20_Witness ==
    /\ last = "get_project_breakdown"
    /\ \E p, q \in DOMAIN result :
          /\ result[p].value.cache_efficiency_pct = RatInt(40)
          /\ result[q].value.cache_efficiency_pct = RatZero
          /\ result[q].value.total_tokens.input_tokens > 0

\* no record of the log store passes the time filter
AllFilteredOut == \A i \in DOMAIN log : ~Includes(time_filter, log[i].timestamp)

\* C13: over an empty log store, or one whose records are all filtered out,
\* get_summary returns all-zero tokens, four zero costs, zero cache savings
\* and zero cache efficiency, and the three breakdowns are empty.
C13_NothingToAggregate ==
    AllFilteredOut =>
        /\ last = "get_summary" =>
              /\ result.total_tokens = ZeroUsage
              /\ \A field \in CostFields : result.cost_breakdown[field] = RatZero
              /\ cache_savings(result.cost_breakdown) = RatZero
              /\ result.cache_efficiency_pct = RatZero
        /\ last \in {"get_model_breakdown", "get_project_breakdown",
                      "get_model_by_project_breakdown"} =>
              result = <<>>

\* two well-formed records, both outside the window
C13_Witness ==
    /\ last = "get_summary"
    /\ Len(log) = 2
    /\ \A i \in DOMAIN log : ~Malformed(log[i])
    /\ time_filter.kind = "window"
    /\ AllFilteredOut
    /\ result.total_tokens = ZeroUsage

\* the window of the same length that starts where tf ends
FollowingWindow(tf) == Window(tf.end, tf.end + (tf.end - tf.start))

\* C14: a window includes t exactly when start <= t < end: a timestamp at the
\* end of a window is outside it and inside the following window, none is in
\* both, and what the parser counts in the two windows adds up to what it
\* counts in the window that spans both.
C14_WindowHalfOpen ==
    time_filter.kind = "window" =>
        LET tf == time_filter
            following == FollowingWindow(tf)
            both == Window(tf.start, following.end)
        IN  /\ \A i \in DOMAIN log :
                  LET t == log[i].timestamp
                  IN  t # NoTimestamp =>
                        /\ Includes(tf, t) <=> (tf.start <= t /\ t < tf.end)
                        /\ t = tf.end => (~Includes(tf, t) /\ Includes(following, t))
                        /\ ~(Includes(tf, t) /\ Includes(following, t))
            /\ AddUsage(get_stats(log, tf).total_tokens,
                         get_stats(log, following).total_tokens)
                  = get_stats(log, both).total_tokens

\* a record at the end of the window counts in the following window only
C14_Witness ==
    /\ time_filter.kind = "window"
    /\ \E i \in DOMAIN log :
          /\ ~Malformed(log[i])
          /\ log[i].timestamp = time_filter.end
    /\ \E i \in DOMAIN log :
          /\ ~Malformed(log[i])
          /\ log[i].timestamp = time_filter.start
    /\ get_stats(log, time_filter).total_tokens = SmallUsage
    /\ get_stats(log, FollowingWindow(time_filter)).total_tokens = LargeUsage

\* a record the parser has to skip: no session id, no timestamp, a negative counter
IsMalformedRecord(r) ==
    \/ r.session_id = ""
    \/ r.timestamp = NoTimestamp
    \/ \E f \in DOMAIN r.usage : r.usage[f] < 0

WellFormedOnly(records) == SelectSeq(records, LAMBDA r : ~IsMalformedRecord(r))

\* C15: malformed records are skipped wherever they stand: the stats and
\* the project stats are those of the log without the malformed records.
C15_MalformedSkipped ==
    /\ get_stats(log, time_filter) = get_stats(WellFormedOnly(log), time_filter)
    /\ get_project_stats(log, time_filter)
          = get_project_stats(WellFormedOnly(log), time_filter)

\* a record with a negative counter comes first, a counted record after it
C15_Witness ==
    /\ Len(log) = 2
    /\ log[1].usage.output_tokens < 0
    /\ ~IsMalformedRecord(log[2])
    /\ get_stats(log, time_filter).total_tokens = log[2].usage
    /\ log[2].usage = LargeUsage

IncludedOnly(records, tf) == SelectSeq(records, LAMBDA r : Includes(tf, r.timestamp))

\* C16: the records that fail the analyzer's time filter count nowhere: the
\* parser's aggregates and the result of every query are those of the
\* included records alone.
C16_FilteredRecordsCountNowhere ==
    LET included == IncludedOnly(log, time_filter)
    IN  /\ get_stats(log, time_filter) = get_stats(included, NoFilter)
        /\ get_project_stats(log, time_filter) = get_project_stats(included, NoFilter)
        /\ last = "get_summary" => result = get_summary(included, NoFilter)
        /\ last = "get_model_breakdown" => result = get_model_breakdown(included, NoFilter)
        /\ last = "get_model_by_project_breakdown" =>
              result = get_model_by_project_breakdown(included, NoFilter)
        /\ last = "get_project_breakdown" =>
              result = get_project_breakdown(included, NoFilter)

\* one record inside the window, one outside; the summary holds the first only
C16_Witness ==
    /\ last = "get_summary"
    /\ time_filter.kind = "window"
    /\ Len(log) = 2
    /\ \A i \in DOMAIN log : ~Malformed(log[i])
    /\ Includes(time_filter, log[1].timestamp)
    /\ ~Includes(time_filter, log[2].timestamp)
    /\ result.total_tokens = log[1].usage

Alone(query) ==
    CASE query = "get_summary" -> get_summary(log, time_filter)
      [] query = "get_model_breakdown" -> get_model_breakdown(log, time_filter)
      [] query = "get_model_by_project_breakdown" ->
           get_model_by_project_breakdown(log, time_filter)
      [] query = "get_project_breakdown" -> get_project_breakdown(log, time_filter)

\* C19: with several callers inside queries of one analyzer at once, over a
\* log store that does not change, every interleaving of their steps gives
\* each caller the result it gets running alone.
C19_ConcurrentCallersGetOwnResult ==
    \A c \in Callers :
        callers[c].pc = "done" => callers[c].result = Alone(callers[c].query)

\* one caller has returned from get_summary, over two models, while the
\* other is in the middle of the loop of its own get_summary
C19_Witness ==
    /\ callers["c1"].pc = "done"
    /\ callers["c1"].query = "get_summary"
    /\ total_cost(callers["c1"].result.cost_breakdown) # RatZero
    /\ callers["c2"].pc = "read"
    /\ callers["c2"].query = "get_summary"
    /\ Len(callers["c2"].stats.model_usage) = 2
    /\ callers["c2"].priced = 1

RECURSIVE SumCostsFloat(_, _)
SumCostsFloat(models, n) ==
    IF n = 0 THEN RatZero ELSE FloatAdd(SumCostsFloat(models, n - 1), models[n].value[2])

\* the calls of get_summary and of get_model_breakdown made on the snapshot
SummaryCalls == {i \in DOMAIN calls : calls[i].query = "get_summary"}
BreakdownCalls == {i \in DOMAIN calls : calls[i].query = "get_model_breakdown"}

\* C22 as stated: the total cost of get_summary equals the sum of the costs
\* of the entries of get_model_breakdown on the same snapshot, and the
\* models of the breakdown are the models get_summary priced.
C22_SummaryTotalIsBreakdownSum ==
    \A i \in SummaryCalls : \A j \in BreakdownCalls :
        /\ total_cost_float(calls[i].result.cost_breakdown)
              = SumCostsFloat(calls[j].result, Len(calls[j].result))
        /\ Keys(calls[j].result) = Keys(get_stats(log, time_filter).model_usage)

\* a and b differ by at most n roundings of a float operation
WithinRoundings(a, b, n) ==
    LET larger == IF RatLeq(a, b) THEN b ELSE a
        smaller == IF RatLeq(a, b) THEN a ELSE b
    IN  RatLeq(RatMul(RatSub(larger, smaller), RatInt(Pow2(MantissaBits))),
               RatMul(RatInt(n), larger))

\* C22, amended: the two are the same sum in exact arithmetic; as floats,
\* added up in different orders, they are equal when at most one model is
\* priced and otherwise differ by at most 2 * (models + 3) roundings; the
\* models of the breakdown are the models get_summary priced.
C22_SummaryTotalNearBreakdownSum ==
    LET model_usage == get_stats(log, time_filter).model_usage
        models == Len(model_usage)
        breakdown == get_model_breakdown(log, time_filter)
    IN  \A i \in SummaryCalls : \A j \in BreakdownCalls :
            LET total == total_cost_float(calls[i].result.cost_breakdown)
                sum == SumCostsFloat(calls[j].result, Len(calls[j].result))
            IN  /\ total_cost(get_summary(log, time_filter).cost_breakdown)
                      = SumCosts(breakdown, Len(breakdown))
                /\ models <= 1 => total = sum
                /\ WithinRoundings(total, sum, 2 * (models + 3))
                /\ Keys(calls[j].result) = Keys(model_usage)

\* both queries were called on a snapshot with two models, and the floats differ
C22_Witness ==
    /\ SummaryCalls # {}
    /\ BreakdownCalls # {}
    /\ Len(get_stats(log, time_filter).model_usage) = 2
    /\ \E i \in SummaryCalls : \E j \in BreakdownCalls :
          total_cost_float(calls[i].result.cost_breakdown)
              # SumCostsFloat(calls[j].result, Len(calls[j].result))

\* sum over the models of cache_read_input_tokens / 1,000,000 * (the model's
\* input rate - the model's cache-read rate), in exact arithmetic and in floats
RECURSIVE TrueSavings(_, _)
TrueSavings(model_usage, n) ==
    IF n = 0
    THEN RatZero
    ELSE LET pricing == PricingFor(model_usage[n].key)
         IN  RatAdd(TrueSavings(model_usage, n - 1),
                    RatMul(Rat(model_usage[n].value.cache_read_input_tokens, Million),
                           RatSub(pricing.input_per_mtok, pricing.cache_read_per_mtok)))

RECURSIVE TrueSavingsFloat(_, _)
TrueSavingsFloat(model_usage, n) ==
    IF n = 0
    THEN RatZero
    ELSE LET pricing == FloatPricing(PricingFor(model_usage[n].key))
             tokens == model_usage[n].value.cache_read_input_tokens
         IN  FloatAdd(TrueSavingsFloat(model_usage, n - 1),
                      FloatMul(FloatDiv(RatInt(tokens), RatInt(Million)),
                               FloatSub(pricing.input_per_mtok,
                                        pricing.cache_read_per_mtok)))

\* every entry of the table has the default entry's ratio of input rate to
\* cache-read rate
SameCacheRatio ==
    \A model \in DOMAIN MODEL_PRICING :
        RatMul(MODEL_PRICING[model].input_per_mtok, DEFAULT_PRICING.cache_read_per_mtok)
            = RatMul(MODEL_PRICING[model].cache_read_per_mtok, DEFAULT_PRICING.input_per_mtok)

\* C23 as stated: every entry of the pricing table has the default entry's
\* ratio of input rate to cache-read rate, and the cache savings of the cost
\* breakdown of get_summary equal the sum of the per-model savings.
C23_DefaultRateSavingsAreTrueSavings ==
    /\ SameCacheRatio
    /\ \A i \in SummaryCalls :
          LET model_usage == get_stats(log, time_filter).model_usage
          IN  cache_savings_float(calls[i].result.cost_breakdown)
                  = TrueSavingsFloat(model_usage, Len(model_usage))

\* C23, amended: every entry of the pricing table has the default entry's
\* ratio of input rate to cache-read rate; the cache savings of the cost
\* breakdown of get_summary and the sum of the per-model savings are equal
\* in exact arithmetic, and as floats they are both 0 without cache reads
\* and otherwise differ by at most 4 * (models + 3) roundings.
C23_DefaultRateSavingsNearTrueSavings ==
    /\ SameCacheRatio
    /\ \A i \in SummaryCalls :
          LET model_usage == get_stats(log, time_filter).model_usage
              models == Len(model_usage)
              savings == cache_savings_float(calls[i].result.cost_breakdown)
              true_savings == TrueSavingsFloat(model_usage, models)
          IN  /\ cache_savings(get_summary(log, time_filter).cost_breakdown)
                    = TrueSavings(model_usage, models)
              /\ calls[i].result.total_tokens.cache_read_input_tokens = 0 =>
                    (savings = RatZero /\ true_savings = RatZero)
              /\ WithinRoundings(savings, true_savings, 4 * (models + 3))

\* get_summary was called over cache reads on two models, neither at the
\* default rates, and the two floats differ
C23_Witness ==
    \E i \in SummaryCalls :
        LET model_usage == get_stats(log, time_filter).model_usage
        IN  /\ Keys(model_usage) = {Haiku, Opus}
            /\ \A m \in DOMAIN model_usage :
                  model_usage[m].value.cache_read_input_tokens > 0
            /\ cache_savings_float(calls[i].result.cost_breakdown)
                  # TrueSavingsFloat(model_usage, Len(model_usage))

\* the projects of the parser that have usage on some model
ProjectsWithModels(project_stats) ==
    {project_stats[i].key : i \in {j \in DOMAIN project_stats :
                                       project_stats[j].value.model_usage # <<>>}}

\* C24: on one snapshot, get_project_breakdown has an entry for every project
\* of the parser, get_model_by_project_breakdown has entries for exactly
\* those of them that have usage on some model, and none of its entries is
\* an empty mapping.
C24_NestedBreakdownSkipsEmptyProjects ==
    LET project_stats == get_project_stats(log, time_filter)
        projects == Keys(get_project_breakdown(log, time_filter))
    IN  /\ last = "get_project_breakdown" =>
              /\ Keys(result) = Keys(project_stats)
              /\ Len(result) = Len(project_stats)
        /\ last = "get_model_by_project_breakdown" =>
              /\ Keys(result) = projects \cap ProjectsWithModels(project_stats)
              /\ Len(result) = Cardinality(Keys(result))
              /\ \A i \in DOMAIN result : result[i].value # <<>>

\* two projects, one of them with records that name no model only
C24_Witness ==
    LET project_stats == get_project_stats(log, time_filter)
    IN  /\ last = "get_model_by_project_breakdown"
        /\ Len(project_stats) = 2
        /\ Cardinality(ProjectsWithModels(project_stats)) = 1
        /\ Len(result) = 1
        /\ Keys(get_project_breakdown(log, time_filter)) = Keys(project_stats)

\* the four cost fields of a TokenSummary added up
FourFields(summary) ==
    RatAdd(RatAdd(RatAdd(summary.cost_breakdown.input_cost,
                         summary.cost_breakdown.output_cost),
                  summary.cost_breakdown.cache_write_cost),
           summary.cost_breakdown.cache_read_cost)

NetIsTotal(summary) ==
    /\ net_cost(summary) = summary_total_cost(summary)
    /\ summary_total_cost(summary) = FourFields(summary)

ChoiceSteps == <<"show_welcome", "ask_view", "ask_timeframe", "clear">>

\* the letters of the timeframes, as typed in lower case and in upper case
TimeframeLetters ==
    {<<"t", "T">>, <<"w", "W">>, <<"m", "M">>, <<"r", "R">>, <<"y", "Y">>, <<"a", "A">>}

\* C26: get_user_choice shows the welcome screen first and asks for the view
\* before the timeframe, each once at most.  With the answer q or Q it
\* returns ("quit", "") having asked for no timeframe and cleared nothing;
\* with another answer it asks for the timeframe once, then clears the
\* console, and returns the view and the timeframe in upper case.
C26_GetUserChoiceOrder ==
    /\ menu.console = SubSeq(ChoiceSteps, 1, Len(menu.console))
    /\ (menu.pc = "returned" /\ menu.view_answer \in {"q", "Q"}) =>
          /\ result = <<"quit", "">>
          /\ menu.console = <<"show_welcome", "ask_view">>
    /\ (menu.pc = "returned" /\ menu.view_answer \notin {"q", "Q"}) =>
          /\ menu.console = ChoiceSteps
          /\ result[1] = menu.view_answer
          /\ \E letter \in TimeframeLetters :
                /\ menu.timeframe_answer \in {letter[1], letter[2]}
                /\ result[2] = letter[2]

\* a call answered 2 and w has returned ("2", "W") after a call answered q
\* has returned
C26_Witness ==
    /\ menu.pc = "returned"
    /\ menu.view_answer = "2"
    /\ menu.timeframe_answer = "w"
    /\ result = <<"2", "W">>
    /\ menu.console = ChoiceSteps

RowsOfFirst(rows, mapping, limit) ==
    IF mapping = <<>>
    THEN Len(rows) = 1 /\ rows[1].kind = "placeholder"
    ELSE /\ Len(rows) <= limit
         /\ Len(rows) = (IF limit < Len(mapping) THEN limit ELSE Len(mapping))
         /\ \A i \in DOMAIN rows :
               /\ rows[i].kind = "row"
               /\ rows[i].project = project_name(mapping[i].key)

\* C28: both tables have a row for each of the first `limit` entries of the
\* mapping, in its order, and no other; the placeholder row is there exactly
\* when the mapping is empty; a row of the model table names the first two
\* models of the project at most, and "+N more" with N = models - 2 exactly
\* when the project has more than two.
C28_TablesShowFirstEntries ==
    /\ last = "create_project_tokens_table" =>
          RowsOfFirst(result, get_project_breakdown(log, time_filter), args.limit)
    /\ last = "create_model_by_project_table" =>
          LET mapping == get_model_by_project_breakdown(log, time_filter)
          IN  /\ RowsOfFirst(result, mapping, args.limit)
              /\ mapping # <<>> =>
                    \A i \in DOMAIN result :
                        LET models == mapping[i].value
                            shown == result[i].models
                        IN  /\ Len(shown) = (IF Len(models) < 2 THEN Len(models) ELSE 2)
                            /\ \A k \in DOMAIN shown :
                                  /\ shown[k].name = simple_name(models[k].key)
                                  /\ shown[k].cost = models[k].value[2]
                            /\ result[i].more > 0 <=> Len(models) > 2
                            /\ Len(models) > 2 => result[i].more = Len(models) - 2

\* a project with three models, two of them named and "+1 more"
C28_Witness ==
    /\ last = "create_model_by_project_table"
    /\ args.limit = 1
    /\ Len(result) = 1
    /\ result[1].kind = "row"
    /\ Len(get_model_by_project_breakdown(log, time_filter)[1].value) = 3
    /\ Len(result[1].models) = 2
    /\ result[1].more = 1

====
